---- MODULE Spec2Model ----
(***************************************************************************)
(* ARB APIs: the OTP, signup, password-reset and JWT handlers of           *)
(* arb/arb_apis/auth.py with their helpers of utils/authentication.py and  *)
(* utils/frappe_configs.py, as a state machine over the shared cache, the  *)
(* User/Customer tables and the request session.  One action is one whole  *)
(* request (decorators included); Tick lets wall-clock time pass.          *)
(***************************************************************************)
EXTENDS Integers, Sequences, FiniteSets, TLC

VARIABLES
    clock,        \* wall-clock time in seconds (datetime.now / cache TTL base)
    cache,        \* frappe.cache(): key -> [value, expires_at] or Absent
    users,        \* tabUser: name (= email) -> row or Absent
    customers,    \* tabCustomer rows created by complete_signup
    sessionUser,  \* frappe.session.user when the last request ended
    lastCall,     \* the last request and the response its caller got
    otpLog,       \* history per (purpose, identifier): OTPs generated so far
                  \* (gens), and the verifications that succeeded (oks) and
                  \* failed on a wrong OTP (wrongs) against the entry that is
                  \* cached now
    quick_orders, \* tabQuick Order (the carts), least recently modified first
    addresses,    \* tabAddress: name -> document or None
    contacts,     \* tabContact, least recently modified first
    quotations,   \* tabQuotation: name -> document or None
    notifications,\* tabUser Notification: name -> document
    workers       \* update_cart requests in progress, one per web worker

shopVars == <<quick_orders, addresses, contacts, quotations, notifications, workers>>

vars == <<clock, cache, users, customers, sessionUser, lastCall, otpLog, shopVars>>

----------------------------------------------------------------------------
(* Bounds of the model *)

TickSec == 60          \* seconds that pass in one Tick
MaxBlacklisted == 1    \* refresh tokens on the blacklist at one time
MaxTicks == 2          \* Ticks in one behaviour
SiteOtpExpiryMinutes == 2   \* site_config value of arb_otp_expiry_minutes
SiteOtpResendLimit == 1     \* site_config value of arb_otp_resend_limit_per_hour
FarFuture == 1000000   \* exp of a request token that outlives the behaviour

Phones == {"9000000002"}
Ann == "ann@x.com"
Bob == "bob@x.com"
LocalMail(phone) == "9000000002@arb.local"   \* f"{data.phone}@arb.local"
Emails == {Ann, Bob} \cup {LocalMail(p) : p \in Phones}
\* what identifies an OTP of each purpose: a phone, or a user's email
Ids(purpose) == IF purpose = "reset" THEN Emails ELSE Phones
FullNames == {"Ann Lee"}
Passwords == {"Passw0rd!", "Other9pw?"}
Otps == {<<1, 2, 3, 4, 5, 6>>, <<0, 0, 0, 0, 0, 0>>}
ResetTokens == {"hash-a"}
Purposes == {"signup", "login", "reset"}

None == [none |-> TRUE]      \* Python None / a missing row
Absent == [absent |-> TRUE]  \* no such cache key
PyTrue == [bool |-> TRUE]    \* the value True as a cache value
NoToken == [token |-> "none"]   \* no token (empty header, nothing issued)

----------------------------------------------------------------------------
(* utils/frappe_configs.py *)

site_config ==
    [arb_otp_expiry_minutes |-> SiteOtpExpiryMinutes,
     arb_otp_resend_limit_per_hour |-> SiteOtpResendLimit]

conf_get(key, default) ==
    IF key \in DOMAIN site_config THEN site_config[key] ELSE default

get_jwt_secret == conf_get("arb_jwt_secret", "your-secret-key-change-in-production")
get_otp_expiry_minutes == conf_get("arb_otp_expiry_minutes", 10)
get_jwt_algorithm == conf_get("arb_jwt_algorithm", "HS256")
get_jwt_expiry_minutes == conf_get("arb_jwt_expiry_minutes", 60)
get_jwt_refresh_expiry_days == conf_get("arb_jwt_refresh_expiry_days", 7)
get_otp_resend_limit_per_hour == conf_get("arb_otp_resend_limit_per_hour", 5)

----------------------------------------------------------------------------
(* The cache, the tables and the outcome of a piece of handler code *)

OtpKey(purpose, identifier) == <<"otp", purpose, identifier>>
ResetKey(user_email) == <<"password_reset", user_email>>
BlacklistKey(token) == <<"blacklist_refresh", token>>

get_value(c, key) ==
    IF key \in DOMAIN c /\ c[key] # Absent THEN c[key].value ELSE None

set_value(c, key, value, expires_in_sec) ==
    [k \in DOMAIN c \cup {key} |->
        IF k = key THEN [value |-> value, expires_at |-> clock + expires_in_sec]
        ELSE c[k]]

delete_key(c, key) ==
    [k \in DOMAIN c |-> IF k = key THEN Absent ELSE c[k]]

UserByMobile(phone, only_enabled) ==
    {e \in Emails : /\ users[e] # None
                    /\ users[e].mobile_no = phone
                    /\ (only_enabled => users[e].enabled = 1)}

UserByEmail(email, only_enabled) ==
    {e \in Emails : /\ users[e] # None
                    /\ e = email
                    /\ (only_enabled => users[e].enabled = 1)}

\* exc = "" : the code returned; otherwise the exception class that left it
Return(c, status, msg) == [exc |-> "", status |-> status, msg |-> msg, cache |-> c]
Throw(c, exc, msg) == [exc |-> exc, status |-> "", msg |-> msg, cache |-> c]

\* frappe.ValidationError and its subclasses; PermissionError, TypeError,
\* AttributeError and DoesNotExistError are not among them
ValidationErrors == {"ValidationError"}

\* try: ... except frappe.ValidationError: str(e)  except Exception: generic
TryExcept(o, generic) ==
    IF o.exc = "" THEN o
    ELSE IF o.exc \in ValidationErrors THEN Return(o.cache, "error", o.msg)
    ELSE Return(o.cache, "error", generic)

Kind(o) == IF o.exc # "" THEN "raised" ELSE o.status

----------------------------------------------------------------------------
(* utils/authentication.py: OTP helpers *)

generate_otp(length) ==
    LET len == IF length <= 0 \/ length > 9 THEN 6 ELSE length
        numbers == <<1, 2, 3, 4, 5, 6, 7, 8, 9>>
    IN  SubSeq(numbers, 1, len)

hash_otp(otp) == [sha256 |-> otp]

(* auth.py: send_otp(purpose, identifier, extra_data=None) *)
send_otp_params == {"purpose", "identifier", "extra_data"}

\* send_otp as it would be if a resend carried the verified flag over
send_otp_keeps_verified(c, purpose, identifier, extra_data) ==
    LET cache_key == OtpKey(purpose, identifier)
        existing == get_value(c, cache_key)
        resend_attempts == IF existing # None THEN existing.resend_attempts + 1 ELSE 0
    IN  IF existing # None /\ resend_attempts > get_otp_resend_limit_per_hour
        THEN Throw(c, "ValidationError",
                   "OTP resend limit exceeded. Please try again after some time.")
        ELSE Return(set_value(c, cache_key,
                        [otp_hash |-> hash_otp(generate_otp(6)),
                         attempts |-> 0,
                         resend_attempts |-> resend_attempts,
                         verified |-> IF existing # None THEN existing.verified
                                      ELSE FALSE,
                         created_at |-> clock,
                         extra |-> extra_data],
                        get_otp_expiry_minutes * 60),
                    "success", "OTP generated successfully")

send_otp(c, purpose, identifier, extra_data) ==
    LET otp_hash == hash_otp(generate_otp(6))
        expiry_minutes == get_otp_expiry_minutes
        cache_key == OtpKey(purpose, identifier)
        existing == get_value(c, cache_key)
        resend_attempts == IF existing # None THEN existing.resend_attempts + 1 ELSE 0
    IN  IF existing # None /\ resend_attempts > get_otp_resend_limit_per_hour
        THEN Throw(c, "ValidationError",
                   "OTP resend limit exceeded. Please try again after some time.")
        ELSE Return(set_value(c, cache_key,
                        [otp_hash |-> otp_hash,
                         attempts |-> 0,
                         resend_attempts |-> resend_attempts,
                         verified |-> FALSE,
                         created_at |-> clock,
                         extra |-> extra_data],
                        expiry_minutes * 60),
                    "success", "OTP generated successfully")

\* a call site: Python binds the keyword arguments before the body runs
call_send_otp(c, kwargs, purpose, identifier, extra_data) ==
    IF kwargs \subseteq send_otp_params
    THEN send_otp(c, purpose, identifier, extra_data)
    ELSE Throw(c, "TypeError", "send_otp() got an unexpected keyword argument")

----------------------------------------------------------------------------
(* History kept beside the program state *)

Sat(n, cap) == IF n < cap THEN n ELSE cap
GenCap == get_otp_resend_limit_per_hour + 2

\* the key a verification of this purpose reads
VerifyKey(purpose, identifier) ==
    IF purpose = "reset" THEN ResetKey(identifier) ELSE OtpKey(purpose, identifier)

\* oks and wrongs are about the cached entry: they end with it
Forget(log, c) ==
    [k \in DOMAIN log |->
        IF get_value(c, VerifyKey(k[1], k[2])) = None
        THEN [log[k] EXCEPT !.oks = 0, !.wrongs = 0] ELSE log[k]]

LogGenerated(purpose, identifier) ==
    [otpLog EXCEPT ![<<purpose, identifier>>] =
        [gens |-> Sat(@.gens + 1, GenCap), oks |-> 0, wrongs |-> 0]]
LogVerified(purpose, identifier) ==
    [otpLog EXCEPT ![<<purpose, identifier>>].oks = Sat(@ + 1, 2)]
LogWrong(purpose, identifier) ==
    [otpLog EXCEPT ![<<purpose, identifier>>].wrongs = Sat(@ + 1, 3)]

\* The requests of one behaviour keep an identifier in one OTP flow at a
\* time: a flow is started for it only while no OTP of another purpose is
\* cached for it (the keys of different purposes never meet in the code).
FlowFree(purpose, identifier) ==
    \A p \in Purposes \ {purpose} :
        identifier \in Ids(p) => get_value(cache, OtpKey(p, identifier)) = None

Call(handler, id, o) ==
    [handler |-> handler, id |-> id, kind |-> Kind(o), msg |-> o.msg,
     header |-> NoToken, arg |-> NoToken, user0 |-> "Guest",
     body_ran |-> TRUE, body_user |-> "Guest", access_token |-> NoToken]

NoCall ==
    [handler |-> "", id |-> "", kind |-> "", msg |-> "",
     header |-> NoToken, arg |-> NoToken, user0 |-> "Guest",
     body_ran |-> FALSE, body_user |-> "Guest", access_token |-> NoToken]

----------------------------------------------------------------------------
(* auth.py: signup *)

send_signup_otp_body(c, phone, full_name) ==
    IF UserByMobile(phone, FALSE) # {}
    THEN Throw(c, "ValidationError", "Phone number already registered")
    ELSE call_send_otp(c, {"purpose", "identifier", "extra_data"},
                       "signup", phone, [full_name |-> full_name])

send_signup_otp ==
    \E phone \in Phones, full_name \in FullNames :
        LET o == send_signup_otp_body(cache, phone, full_name) IN
        /\ FlowFree("signup", phone)
        /\ cache' = o.cache
        /\ lastCall' = Call("send_signup_otp", phone, o)
        /\ otpLog' = IF Kind(o) = "success" THEN LogGenerated("signup", phone)
                     ELSE otpLog
        /\ UNCHANGED <<shopVars, clock, users, customers, sessionUser>>

resend_signup_otp_body(c, phone) ==
    TryExcept(call_send_otp(c, {"purpose", "identifier"}, "signup", phone, [empty |-> TRUE]),
              "Failed to resend OTP. Please try again.")

resend_signup_otp ==
    \E phone \in Phones :
        LET o == resend_signup_otp_body(cache, phone) IN
        /\ FlowFree("signup", phone)
        /\ cache' = o.cache
        /\ lastCall' = Call("resend_signup_otp", phone, o)
        /\ otpLog' = IF Kind(o) = "success" THEN LogGenerated("signup", phone)
                     ELSE otpLog
        /\ UNCHANGED <<shopVars, clock, users, customers, sessionUser>>

verify_signup_otp_try(c, phone, otp) ==
    LET cache_key == OtpKey("signup", phone)
        otp_data == get_value(c, cache_key)
    IN  IF otp_data = None
        THEN Throw(c, "ValidationError", "OTP expired or invalid")
        ELSE IF otp_data.attempts >= 3
        THEN Throw(c, "ValidationError", "Too many attempts. Request a new OTP")
        ELSE IF hash_otp(otp) # otp_data.otp_hash
        THEN Throw(set_value(c, cache_key,
                             [otp_data EXCEPT !.attempts = @ + 1],
                             get_otp_expiry_minutes * 60),
                   "ValidationError", "Invalid OTP")
        ELSE Return(set_value(c, cache_key,
                              [otp_data EXCEPT !.verified = TRUE],
                              get_otp_expiry_minutes * 60),
                    "success", "OTP verified successfully")

verify_signup_otp_body(c, phone, otp) ==
    TryExcept(verify_signup_otp_try(c, phone, otp),
              "Failed to verify OTP. Please try again.")

verify_signup_otp ==
    \E phone \in Phones, otp \in Otps :
        LET o == verify_signup_otp_body(cache, phone, otp) IN
        /\ cache' = o.cache
        /\ lastCall' = Call("verify_signup_otp", phone, o)
        /\ otpLog' = IF Kind(o) = "success" THEN LogVerified("signup", phone)
                     ELSE IF o.msg = "Invalid OTP" THEN LogWrong("signup", phone)
                     ELSE otpLog
        /\ UNCHANGED <<shopVars, clock, users, customers, sessionUser>>

----------------------------------------------------------------------------
(* utils/authentication.py: tokens *)

jwt_encode(payload, secret, algorithm) ==
    [email |-> payload.email, type |-> payload.type, exp |-> payload.exp,
     key |-> secret, alg |-> algorithm]

generate_jwt_token(user_email) ==
    jwt_encode([email |-> user_email, type |-> "",
                exp |-> clock + get_jwt_expiry_minutes * 60],
               get_jwt_secret, get_jwt_algorithm)

generate_refresh_token(user_email) ==
    jwt_encode([email |-> user_email, type |-> "refresh",
                exp |-> clock + get_jwt_refresh_expiry_days * 24 * 60 * 60],
               get_jwt_secret, get_jwt_algorithm)

\* verify_jwt_token as it would be if jwt.decode did not check exp
verify_jwt_token_no_exp(token) ==
    IF /\ token # NoToken
       /\ token.key = get_jwt_secret
       /\ token.alg \in {get_jwt_algorithm}
    THEN [email |-> token.email, type |-> token.type, exp |-> token.exp]
    ELSE None

\* jwt.decode: signature under the secret, algorithm in the allowed list,
\* exp still ahead; any failure is suppressed and gives None
verify_jwt_token(token) ==
    IF /\ token # NoToken
       /\ token.key = get_jwt_secret
       /\ token.alg \in {get_jwt_algorithm}
       /\ token.exp > clock
    THEN [email |-> token.email, type |-> token.type, exp |-> token.exp]
    ELSE None

----------------------------------------------------------------------------
(* auth.py: complete_signup *)

WithDb(o, u, cu) == [users |-> u, customers |-> cu] @@ o

\* a new User row has the columns of the site's User doctype: the column
\* disabled (default 0) only where the site added one
NewUserRow(row) ==
    IF \E e \in Emails : users[e] # None /\ "disabled" \in DOMAIN users[e]
    THEN [disabled |-> 0] @@ row ELSE row

\* email = "" is a request without email; insert_ok / customer_ok: whether
\* the framework accepts user.insert() / customer.insert()
complete_signup_try(c, phone, password, email_in, insert_ok, customer_ok) ==
    LET otp_key == OtpKey("signup", phone)
        otp_data == get_value(c, otp_key)
        email == IF email_in # "" THEN email_in ELSE LocalMail(phone)
        user == NewUserRow([mobile_no |-> phone, enabled |-> 1,
                            password |-> password])
        customer == [custom_user_id |-> email, mobile_no |-> phone]
    IN  IF otp_data = None \/ ~otp_data.verified
        THEN Throw(c, "ValidationError", "Phone verification required")
        ELSE IF email_in # "" /\ UserByEmail(email_in, FALSE) # {}
        THEN Throw(c, "ValidationError",
                   "Email already registered. Please use a different email or login.")
        ELSE IF UserByMobile(phone, FALSE) # {}
        THEN Throw(c, "ValidationError",
                   "Phone number already registered. Please login instead.")
        ELSE IF ~insert_ok \/ users[email] # None
        THEN Throw(c, "ValidationError", "User insert failed")
        ELSE WithDb(Return(delete_key(c, otp_key), "success",
                           "Account created successfully"),
                    [users EXCEPT ![email] = user],
                    IF customer_ok THEN customers \cup {customer} ELSE customers)

\* both except branches roll the transaction back
complete_signup_body(c, phone, password, email_in, insert_ok, customer_ok) ==
    LET o == complete_signup_try(c, phone, password, email_in, insert_ok, customer_ok)
        h == TryExcept(o, "Failed to create account. Please try again.")
    IN  IF o.exc = "" THEN o ELSE WithDb(h, users, customers)

complete_signup ==
    \E phone \in Phones, password \in {"Passw0rd!"}, email_in \in {"", Ann},
       insert_ok \in BOOLEAN, customer_ok \in BOOLEAN :
        LET o == complete_signup_body(cache, phone, password, email_in,
                                      insert_ok, customer_ok) IN
        /\ cache' = o.cache
        /\ users' = o.users
        /\ customers' = o.customers
        /\ lastCall' = [Call("complete_signup", phone, o) EXCEPT
                          !.access_token =
                              IF Kind(o) = "success"
                              THEN generate_jwt_token(
                                       IF email_in # "" THEN email_in
                                       ELSE LocalMail(phone))
                              ELSE NoToken]
        /\ otpLog' = Forget(otpLog, o.cache)
        /\ UNCHANGED <<shopVars, clock, sessionUser>>

----------------------------------------------------------------------------
(* auth.py: login by OTP *)

send_login_otp_body(c, phone) ==
    LET found == UserByMobile(phone, TRUE) IN
    IF found = {}
    THEN Return(c, "error", "Account not found")
    ELSE LET user == CHOOSE e \in found : TRUE IN
         call_send_otp(c, {"purpose", "identifier", "extra_data"},
                       "login", phone, [user_email |-> user])

send_login_otp ==
    \E phone \in Phones :
        LET o == send_login_otp_body(cache, phone) IN
        /\ FlowFree("login", phone)
        /\ cache' = o.cache
        /\ lastCall' = Call("send_login_otp", phone, o)
        /\ otpLog' = IF Kind(o) = "success" THEN LogGenerated("login", phone)
                     ELSE otpLog
        /\ UNCHANGED <<shopVars, clock, users, customers, sessionUser>>

\* verify_login_otp as it would be without the check of the attempt counter
verify_login_otp_no_limit(c, phone, otp) ==
    LET key == OtpKey("login", phone)
        cached == get_value(c, key)
        user_email == IF "user_email" \in DOMAIN cached.extra
                      THEN cached.extra.user_email ELSE ""
    IN  IF cached = None
        THEN Throw(c, "ValidationError", "OTP expired")
        ELSE IF hash_otp(otp) # cached.otp_hash
        THEN Throw(set_value(c, key, [cached EXCEPT !.attempts = @ + 1],
                             get_otp_expiry_minutes * 60),
                   "ValidationError", "Invalid OTP")
        ELSE IF user_email = ""
        THEN Throw(c, "ValidationError", "Account not found")
        ELSE IF UserByEmail(user_email, TRUE) = {}
        THEN Throw(c, "ValidationError", "Account not found or disabled")
        ELSE Return(delete_key(c, key), "success", user_email)

verify_login_otp_body(c, phone, otp) ==
    LET key == OtpKey("login", phone)
        cached == get_value(c, key)
        user_email == IF "user_email" \in DOMAIN cached.extra
                      THEN cached.extra.user_email ELSE ""
    IN  IF cached = None
        THEN Throw(c, "ValidationError", "OTP expired")
        ELSE IF cached.attempts >= 3
        THEN Throw(c, "ValidationError", "Too many attempts. Request a new OTP")
        ELSE IF hash_otp(otp) # cached.otp_hash
        THEN Throw(set_value(c, key, [cached EXCEPT !.attempts = @ + 1],
                             get_otp_expiry_minutes * 60),
                   "ValidationError", "Invalid OTP")
        ELSE IF user_email = ""
        THEN Throw(c, "ValidationError", "Account not found")
        ELSE IF UserByEmail(user_email, TRUE) = {}
        THEN Throw(c, "ValidationError", "Account not found or disabled")
        ELSE Return(delete_key(c, key), "success", user_email)

verify_login_otp ==
    \E phone \in Phones, otp \in Otps :
        LET o == verify_login_otp_body(cache, phone, otp) IN
        /\ cache' = o.cache
        /\ lastCall' = [Call("verify_login_otp", phone, o) EXCEPT
                          !.access_token = IF Kind(o) = "success"
                                           THEN generate_jwt_token(o.msg)
                                           ELSE NoToken]
        /\ otpLog' = IF Kind(o) = "success"
                     THEN Forget(LogVerified("login", phone), o.cache)
                     ELSE IF o.msg = "Invalid OTP" THEN LogWrong("login", phone)
                     ELSE otpLog
        /\ UNCHANGED <<shopVars, clock, users, customers, sessionUser>>

----------------------------------------------------------------------------
(* auth.py: password reset *)

\* phone = "" / email = "" : the field is not in the request
forgot_password_request_try(c, phone, email) ==
    LET found == IF phone # "" THEN UserByMobile(phone, TRUE)
                 ELSE UserByEmail(email, TRUE)
    IN  IF phone # "" /\ found = {}
        THEN Throw(c, "ValidationError", "No account found with this phone number")
        ELSE IF phone = "" /\ email # "" /\ found = {}
        THEN Throw(c, "ValidationError", "No account found with this email address")
        ELSE LET user_email == CHOOSE e \in found : TRUE IN
             call_send_otp(c, {"purpose", "identifier", "extra_data", "expiry_minutes"},
                           "reset", user_email,
                           [user_email |-> user_email,
                            phone |-> IF phone # "" THEN phone
                                      ELSE users[user_email].mobile_no])

forgot_password_request_body(c, phone, email) ==
    TryExcept(forgot_password_request_try(c, phone, email),
              "Failed to process request. Please try again.")

ResetRequests ==
    {r \in [phone : Phones \cup {""}, email : {"", Ann, Bob}] :
        r.phone # "" \/ r.email # ""}

\* the user a reset request is about, when it names an enabled one
ResetUser(r) ==
    IF r.phone # "" THEN UserByMobile(r.phone, TRUE) ELSE UserByEmail(r.email, TRUE)

forgot_password_request ==
    \E r \in ResetRequests :
        LET o == forgot_password_request_body(cache, r.phone, r.email) IN
        /\ cache' = o.cache
        /\ lastCall' = Call("forgot_password_request",
                            IF r.phone # "" THEN r.phone ELSE r.email, o)
        /\ otpLog' = IF Kind(o) = "success"
                     THEN LogGenerated("reset", CHOOSE e \in ResetUser(r) : TRUE)
                     ELSE otpLog
        /\ UNCHANGED <<shopVars, clock, users, customers, sessionUser>>

\* a 10-digit identifier is looked up as a phone, any other as an email
ResetAccount(identifier) ==
    IF identifier \in Phones THEN UserByMobile(identifier, TRUE)
    ELSE UserByEmail(identifier, TRUE)

\* reset_token: the value frappe.generate_hash returns in this request
verify_reset_otp_try(c, identifier, otp, reset_token) ==
    LET user_list == ResetAccount(identifier)
        user_email == CHOOSE e \in user_list : TRUE
        reset_key == ResetKey(user_email)
        reset_data == get_value(c, reset_key)
    IN  IF user_list = {}
        THEN Throw(c, "ValidationError", "Account not found")
        ELSE IF reset_data = None
        THEN Throw(c, "ValidationError",
                   "Reset request has expired. Please request again.")
        ELSE IF reset_data.attempts >= 3
        THEN Throw(c, "ValidationError",
                   "Too many failed attempts. Please request a new OTP.")
        ELSE IF hash_otp(otp) # reset_data.otp_hash
        THEN Throw(set_value(c, reset_key, [reset_data EXCEPT !.attempts = @ + 1],
                             15 * 60),
                   "ValidationError", "Invalid OTP")
        ELSE Return(set_value(c, reset_key,
                              [reset_token |-> reset_token] @@
                                  [reset_data EXCEPT !.verified = TRUE],
                              15 * 60),
                    "success", "OTP verified successfully")

verify_reset_otp_body(c, identifier, otp, reset_token) ==
    TryExcept(verify_reset_otp_try(c, identifier, otp, reset_token),
              "Failed to verify OTP. Please try again.")

verify_reset_otp ==
    \E identifier \in Phones \cup {Ann, Bob}, otp \in Otps, reset_token \in ResetTokens :
        LET o == verify_reset_otp_body(cache, identifier, otp, reset_token)
            user_email == CHOOSE e \in ResetAccount(identifier) : TRUE
        IN
        /\ cache' = o.cache
        /\ lastCall' = Call("verify_reset_otp", identifier, o)
        /\ otpLog' = IF Kind(o) = "success" THEN LogVerified("reset", user_email)
                     ELSE IF o.msg = "Invalid OTP" THEN LogWrong("reset", user_email)
                     ELSE otpLog
        /\ UNCHANGED <<shopVars, clock, users, customers, sessionUser>>

\* the password_reset_* keys whose entry carries this token and is verified
ResetMatches(c, reset_token) ==
    {e \in Emails :
        LET reset_data == get_value(c, ResetKey(e)) IN
        /\ reset_data # None
        /\ "reset_token" \in DOMAIN reset_data
        /\ reset_data.reset_token = reset_token
        /\ reset_data.verified}

\* found: the key the scan stops at (get_keys fixes no order), "" if none
reset_password_try(c, found, new_password) ==
    LET reset_data == get_value(c, ResetKey(found))
        user_email == reset_data.extra.user_email
    IN  IF found = ""
        THEN WithDb(Throw(c, "ValidationError", "Invalid or expired reset token"),
                    users, customers)
        ELSE IF users[user_email] = None
        THEN WithDb(Throw(c, "DoesNotExistError", "User not found"), users, customers)
        ELSE WithDb(Return(delete_key(c, ResetKey(found)), "success",
                           "Password reset successfully"),
                    [users EXCEPT ![user_email].password = new_password],
                    customers)

reset_password_body(c, found, new_password) ==
    LET o == reset_password_try(c, found, new_password) IN
    WithDb(TryExcept(o, "Failed to reset password. Please try again."),
           o.users, o.customers)

reset_password ==
    \E reset_token \in ResetTokens, new_password \in Passwords :
        \E found \in IF ResetMatches(cache, reset_token) = {} THEN {""}
                     ELSE ResetMatches(cache, reset_token) :
            LET o == reset_password_body(cache, found, new_password) IN
            /\ cache' = o.cache
            /\ users' = o.users
            /\ lastCall' = Call("reset_password", reset_token, o)
            /\ otpLog' = Forget(otpLog, o.cache)
            /\ UNCHANGED <<shopVars, clock, customers, sessionUser>>

resend_reset_otp_try(c, identifier) ==
    LET user == IF identifier \in Emails THEN UserByEmail(identifier, FALSE)
                ELSE UserByMobile(identifier, FALSE)
    IN  IF user = {}
        THEN Throw(c, "ValidationError", "Account not found")
        ELSE call_send_otp(c, {"purpose", "identifier", "expiry_minutes"},
                           "reset", CHOOSE e \in user : TRUE, [empty |-> TRUE])

resend_reset_otp_body(c, identifier) ==
    TryExcept(resend_reset_otp_try(c, identifier),
              "Failed to resend OTP. Please try again.")

resend_reset_otp ==
    \E identifier \in Phones \cup {Ann, Bob} :
        LET o == resend_reset_otp_body(cache, identifier) IN
        /\ cache' = o.cache
        /\ lastCall' = Call("resend_reset_otp", identifier, o)
        /\ otpLog' = IF Kind(o) = "success"
                     THEN LogGenerated("reset",
                              CHOOSE e \in (IF identifier \in Emails
                                            THEN UserByEmail(identifier, FALSE)
                                            ELSE UserByMobile(identifier, FALSE)) : TRUE)
                     ELSE otpLog
        /\ UNCHANGED <<shopVars, clock, users, customers, sessionUser>>

----------------------------------------------------------------------------
(* auth.py and utils/authentication.py: password login and JWT sessions *)

\* Tokens a request may carry: refresh tokens this site signed for Ann, for
\* Bob and for a user who is not in the table, one of them expiring soon; an
\* access token; a token signed with another secret; one with another
\* algorithm.
SignedToken(email, type, exp) ==
    jwt_encode([email |-> email, type |-> type, exp |-> exp],
               get_jwt_secret, get_jwt_algorithm)

RequestTokens ==
    {SignedToken(Ann, "refresh", FarFuture),
     SignedToken(Ann, "refresh", TickSec),
     SignedToken(Bob, "refresh", FarFuture),
     SignedToken(LocalMail("9000000002"), "refresh", FarFuture),
     SignedToken(Ann, "", FarFuture),
     jwt_encode([email |-> Ann, type |-> "refresh", exp |-> FarFuture],
                "guessed-secret", get_jwt_algorithm),
     jwt_encode([email |-> Ann, type |-> "refresh", exp |-> FarFuture],
                get_jwt_secret, "none")}

SessionStarts == {"Guest", "Administrator"}

login_try(username, password) ==
    LET user_list == IF username \in Emails THEN UserByEmail(username, FALSE)
                     ELSE UserByMobile(username, FALSE)
        user_email == CHOOSE e \in user_list : TRUE
    IN  IF user_list = {}
        THEN Throw(cache, "ValidationError", "Invalid credentials, user not found")
        ELSE IF users[user_email].enabled # 1
        THEN Throw(cache, "ValidationError", "User account is disabled")
        ELSE IF users[user_email].password # password
        THEN Throw(cache, "ValidationError", "Invalid credentials, incorrect password")
        ELSE Return(cache, "success", user_email)

login_body(username, password) ==
    TryExcept(login_try(username, password), "Authentication failed")

login ==
    \E username \in Emails \cup Phones \cup {"9000000001"}, password \in Passwords :
        LET o == login_body(username, password) IN
        /\ lastCall' = [Call("login", username, o) EXCEPT
                          !.access_token = IF Kind(o) = "success"
                                           THEN generate_jwt_token(o.msg)
                                           ELSE NoToken]
        /\ UNCHANGED <<shopVars, clock, cache, users, customers, sessionUser, otpLog>>

\* user.disabled: the User doctype of the framework has the column enabled;
\* a column disabled exists only where the site added one.  Reading it gives
\* AttributeError where the row has no such column, else the stored value.
refresh_token_try(token) ==
    LET payload == verify_jwt_token(token) IN
    IF payload = None \/ payload.type # "refresh"
    THEN Throw(cache, "ValidationError", "Invalid refresh token")
    ELSE IF users[payload.email] = None
    THEN Throw(cache, "ValidationError", "User not found")
    ELSE IF "disabled" \notin DOMAIN users[payload.email]
    THEN Throw(cache, "AttributeError", "'User' object has no attribute 'disabled'")
    ELSE IF users[payload.email].disabled # 0
    THEN Throw(cache, "ValidationError", "User account is disabled")
    ELSE Return(cache, "success", payload.email)

refresh_token_body(token) ==
    TryExcept(refresh_token_try(token), "Token refresh failed")

refresh_token ==
    \E token \in RequestTokens :
        LET o == refresh_token_body(token) IN
        /\ lastCall' = [Call("refresh_token", "", o) EXCEPT
                          !.arg = token,
                          !.access_token = IF Kind(o) = "success"
                                           THEN generate_jwt_token(o.msg)
                                           ELSE NoToken]
        /\ UNCHANGED <<shopVars, clock, cache, users, customers, sessionUser, otpLog>>

\* The decorator: user0 is frappe.session.user when the request comes in.
\* run: whether the wrapped function is called; user: the session user then.
require_jwt_auth(header, user0) ==
    IF header = NoToken
    THEN [run |-> FALSE, user |-> user0,
          out |-> Throw(cache, "ValidationError",
                        "Missing or invalid Authorization header")]
    ELSE IF verify_jwt_token(header) = None
    THEN [run |-> FALSE, user |-> user0,
          out |-> Throw(cache, "ValidationError", "Invalid or expired token")]
    ELSE [run |-> TRUE, user |-> verify_jwt_token(header).email,
          out |-> Return(cache, "success", "")]

get_current_user_body(user_email) ==
    IF user_email = "Guest"
    THEN Return(cache, "error", "No user is logged in")
    ELSE IF users[user_email] = None
    THEN Throw(cache, "DoesNotExistError", "User not found")
    ELSE Return(cache, "success", user_email)

get_current_user ==
    \E header \in RequestTokens \cup {NoToken}, user0 \in SessionStarts :
        LET auth == require_jwt_auth(header, user0)
            o == IF auth.run THEN get_current_user_body(auth.user) ELSE auth.out
        IN
        /\ sessionUser' = auth.user
        /\ lastCall' = [Call("get_current_user", "", o) EXCEPT
                          !.header = header, !.user0 = user0,
                          !.body_ran = auth.run, !.body_user = auth.user]
        /\ UNCHANGED <<shopVars, clock, cache, users, customers, otpLog>>

blacklist_refresh_token(c, refresh) ==
    set_value(c, BlacklistKey(refresh), PyTrue, 7 * 24 * 60 * 60)

is_refresh_token_blacklisted(c, refresh) ==
    get_value(c, BlacklistKey(refresh)) # None   \* bool(True) / bool(None)

Blacklisted(c) == {t \in RequestTokens : is_refresh_token_blacklisted(c, t)}

\* the function under the decorators; session: the user it ends with
logout_body(c, user, refresh) ==
    LET payload == verify_jwt_token(refresh)
        o == IF payload = None \/ payload.type # "refresh"
             THEN Throw(c, "ValidationError", "Invalid refresh token")
             ELSE Return(blacklist_refresh_token(c, refresh), "success",
                         "Logged out successfully")
    IN  [session |-> IF o.exc = "" THEN "Guest" ELSE user] @@
            TryExcept(o, "Logout failed")

logout ==
    \E header \in RequestTokens \cup {NoToken}, user0 \in SessionStarts,
       refresh \in RequestTokens :
        LET auth == require_jwt_auth(header, user0)
            o == IF auth.run THEN logout_body(cache, auth.user, refresh)
                 ELSE [session |-> auth.user] @@ auth.out
        IN
        /\ Cardinality(Blacklisted(o.cache)) <= MaxBlacklisted
        /\ cache' = o.cache
        /\ sessionUser' = o.session
        /\ lastCall' = [Call("logout", "", o) EXCEPT
                          !.header = header, !.arg = refresh, !.user0 = user0,
                          !.body_ran = auth.run, !.body_user = auth.user]
        /\ UNCHANGED <<shopVars, clock, users, customers, otpLog>>

----------------------------------------------------------------------------
(* cart.py: the cart is the customer's draft Quick Order *)

MaxQuickOrders == 1   \* Quick Orders created in one behaviour
MaxContacts == 2      \* Contacts at one time

ShopAnn == "CUST-ANN"
ShopBob == "CUST-BOB"
ShopCustomers == {ShopAnn, ShopBob}
ItemCodes == {"ITEM-A", "ITEM-B"}

\* tabWebsite Item: ITEM-U is there but not published, ITEM-Z is not there
website_items ==
    [c \in ItemCodes \cup {"ITEM-U"} |->
        [item_code |-> c, published |-> IF c = "ITEM-U" THEN 0 ELSE 1]]

WebsiteItem(item_code) ==
    IF item_code \in DOMAIN website_items THEN website_items[item_code] ELSE None

\* tabStore Link Shipping Process and tabAvailable Warehouse
shipping_processes == {"SP-1"}
available_warehouses == {"WH-1"}

\* frappe.db.exists("Customer", customer): the rows the shop handlers see
\* are the ones that carry a name
CustomerExists(customer) ==
    \E cu \in customers : "name" \in DOMAIN cu /\ cu.name = customer

\* a row of the child table table_effn (item_name and uom are copied from
\* the Website Item and follow item_code)
CartRow(item_code, qty) == [item_code |-> item_code, qty |-> qty]

Drafts(qo, customer) ==
    {i \in 1..Len(qo) : qo[i].customer = customer /\ qo[i].docstatus = 0}

\* get_value("Quick Order", {customer, docstatus: 0}, order_by="modified desc")
_get_existing_cart(qo, customer) ==
    IF Drafts(qo, customer) = {} THEN None
    ELSE qo[CHOOSE i \in Drafts(qo, customer) :
                \A j \in Drafts(qo, customer) : j <= i]

QuickOrderByName(qo, name) ==
    IF \E i \in 1..Len(qo) : qo[i].name = name
    THEN qo[CHOOSE i \in 1..Len(qo) : qo[i].name = name]
    ELSE None

\* doc.insert(): a new name, modified = now
InsertDoc(qo, doc) == Append(qo, [name |-> Len(qo) + 1] @@ doc)

\* doc.save() / doc.submit(): the stored document is replaced, modified = now
SaveDoc(qo, doc) ==
    Append(SelectSeq(qo, LAMBDA d : d.name # doc.name), doc)

WithOrders(o, qo, cart_id) == [quick_orders |-> qo, cart_id |-> cart_id] @@ o

\* the doc after `if shipping_address: ... elif billing_address: ...`
SetAddresses(doc, shipping_address, billing_address) ==
    IF shipping_address # ""
    THEN [doc EXCEPT !.shipping_address = shipping_address,
                     !.billing_address = shipping_address]
    ELSE IF billing_address # ""
    THEN [doc EXCEPT !.billing_address = billing_address]
    ELSE doc

\* _get_or_create_cart from "Create a new Quick Order" on.  insert_ok:
\* whether the document passes the validation of the Quick Order doctype,
\* which is not part of this repository.  A string that is not given is "".
_create_cart(qo, customer, shipping_process, shipping_address, billing_address, items, insert_ok) ==
    LET cart == SetAddresses(
                    [customer |-> customer, docstatus |-> 0,
                     shipping_process |-> shipping_process,
                     warehouse |-> CHOOSE w \in available_warehouses : TRUE,
                     table_effn |-> items,
                     shipping_address |-> "", billing_address |-> ""],
                    shipping_address, billing_address)
    IN  IF shipping_process = ""
        THEN WithOrders(Throw(cache, "ValidationError",
                 "Shipping Process is required to create a cart"), qo, 0)
        ELSE IF items = <<>>
        THEN WithOrders(Throw(cache, "ValidationError",
                 "At least one item with qty > 0 is required to create a cart"), qo, 0)
        ELSE IF available_warehouses = {}
        THEN WithOrders(Throw(cache, "ValidationError",
                 "No Available Warehouse found to create cart"), qo, 0)
        ELSE IF ~insert_ok
        THEN WithOrders(Throw(cache, "ValidationError", "Quick Order not valid"), qo, 0)
        ELSE WithOrders(Return(cache, "success", "Cart updated successfully"),
                        InsertDoc(qo, cart), Len(qo) + 1)

_get_or_create_cart(qo, customer, shipping_process, shipping_address, billing_address, items, insert_ok) ==
    LET existing_cart == _get_existing_cart(qo, customer) IN
    IF existing_cart # None
    THEN WithOrders(Return(cache, "success", "Cart updated successfully"),
                    qo, existing_cart.name)
    ELSE _create_cart(qo, customer, shipping_process, shipping_address,
                      billing_address, items, insert_ok)

\* the pre-validation loop of update_cart: the message of the first throw
RECURSIVE FirstItemError(_)
FirstItemError(items) ==
    IF items = <<>> THEN ""
    ELSE LET entry == Head(items)
             website_item == WebsiteItem(entry.item_code)
         IN  IF entry.qty < 0 THEN "qty cannot be negative"
             ELSE IF entry.qty > 0 /\ (website_item = None \/ website_item.published # 1)
             THEN "Item not available"
             ELSE FirstItemError(Tail(items))

FirstRowOf(rows, item_code) ==
    IF \E i \in 1..Len(rows) : rows[i].item_code = item_code
    THEN CHOOSE i \in 1..Len(rows) :
            /\ rows[i].item_code = item_code
            /\ \A j \in 1..(i - 1) : rows[j].item_code # item_code
    ELSE 0

RemoveAt(rows, i) == SubSeq(rows, 1, i - 1) \o SubSeq(rows, i + 1, Len(rows))

\* update_existing_item with `existing_item.qty += qty`
update_existing_item_adds(rows, entry) ==
    LET existing_item == FirstRowOf(rows, entry.item_code) IN
    IF entry.qty = 0
    THEN IF existing_item # 0 THEN RemoveAt(rows, existing_item) ELSE rows
    ELSE IF existing_item # 0
    THEN [rows EXCEPT ![existing_item].qty = @ + entry.qty]
    ELSE Append(rows, CartRow(entry.item_code, entry.qty))

\* lines 216-238 of update_cart: one entry applied to the rows of the cart
update_existing_item(rows, entry) ==
    LET existing_item == FirstRowOf(rows, entry.item_code) IN
    IF entry.qty = 0
    THEN IF existing_item # 0 THEN RemoveAt(rows, existing_item) ELSE rows
    ELSE IF existing_item # 0
    THEN [rows EXCEPT ![existing_item].qty = entry.qty]
    ELSE Append(rows, CartRow(entry.item_code, entry.qty))

\* `for entry in normalized_items:` on the rows of the existing cart
RECURSIVE ProcessUpdates(_, _)
ProcessUpdates(rows, items) ==
    IF items = <<>> THEN rows
    ELSE ProcessUpdates(update_existing_item(rows, Head(items)), Tail(items))

\* Dynamic Link row (Customer, customer) of the Address addr
_validate_address(addr, customer) ==
    /\ addr \in DOMAIN addresses
    /\ addresses[addr] # None
    /\ [link_doctype |-> "Customer", link_name |-> customer] \in addresses[addr].links

\* the branch of update_cart for a request with items and no cart yet, up
\* to the call of _get_or_create_cart: the arguments of that call, or a throw
new_cart_args(items, shipping_process) ==
    LET creation_rows == SelectSeq(items, LAMBDA entry : entry.qty > 0)
        default == IF shipping_process # "" THEN shipping_process
                   ELSE IF shipping_processes = {} THEN ""
                   ELSE CHOOSE sp \in shipping_processes : TRUE
    IN  IF creation_rows = <<>>
        THEN [error |-> "At least one item with qty > 0 is required to create a cart"]
        ELSE IF default = ""
        THEN [error |-> "No Shipping Process available"]
        ELSE [error |-> "", items |-> creation_rows, shipping_process |-> default]

\* the branches of update_cart that change the existing cart and save it.
\* save_ok: whether the doctype's validation lets the document be saved.
save_cart(qo, cart, customer, items, shipping_process, shipping_address, billing_address, save_ok) ==
    LET updated == IF items # <<>>
                   THEN [cart EXCEPT !.table_effn = ProcessUpdates(@, items)]
                   ELSE cart
        doc == [SetAddresses(updated, shipping_address, billing_address) EXCEPT
                   !.shipping_process =
                       IF shipping_process # "" THEN shipping_process ELSE @]
    IN  IF shipping_process # "" /\ shipping_process \notin shipping_processes
        THEN WithOrders(Throw(cache, "ValidationError", "Invalid Shipping Process"), qo, 0)
        ELSE IF /\ items = <<>>
                /\ shipping_address # ""
                /\ ~_validate_address(shipping_address, customer)
        THEN WithOrders(Throw(cache, "PermissionError",
                 "Shipping address not found or unauthorized"), qo, 0)
        ELSE IF /\ items = <<>>
                /\ billing_address # ""
                /\ ~_validate_address(billing_address, customer)
        THEN WithOrders(Throw(cache, "PermissionError",
                 "Billing address not found or unauthorized"), qo, 0)
        ELSE IF ~save_ok
        THEN WithOrders(Throw(cache, "ValidationError", "Quick Order not valid"), qo, 0)
        ELSE WithOrders(Return(cache, "success", "Cart updated successfully"),
                        SaveDoc(qo, doc), cart.name)

\* lines 117-128 and the pre-validation of the items: the message of the
\* throw, "" when the request passes
update_cart_checks(customer, items, shipping_process, shipping_address, billing_address) ==
    IF customer = "" THEN "customer is required"
    ELSE IF ~CustomerExists(customer) THEN "Customer not found"
    ELSE IF /\ items = <<>> /\ shipping_process = ""
            /\ shipping_address = "" /\ billing_address = ""
    THEN "At least one of items, shipping_process, shipping_address, or billing_address must be provided"
    ELSE FirstItemError(items)

\* the function under the decorators, for a request that is handled alone
update_cart_body(qo, customer, items, shipping_process, shipping_address, billing_address, doc_ok) ==
    LET error == update_cart_checks(customer, items, shipping_process,
                                    shipping_address, billing_address)
        cart == _get_existing_cart(qo, customer)
        args == new_cart_args(items, shipping_process)
    IN  IF error # ""
        THEN WithOrders(Throw(cache, "ValidationError", error), qo, 0)
        ELSE IF cart # None
        THEN save_cart(qo, cart, customer, items, shipping_process,
                       shipping_address, billing_address, doc_ok)
        ELSE IF items = <<>>
        THEN WithOrders(Throw(cache, "ValidationError",
                 "Cart not found for this customer"), qo, 0)
        ELSE IF args.error # ""
        THEN WithOrders(Throw(cache, "ValidationError", args.error), qo, 0)
        ELSE _get_or_create_cart(qo, customer, args.shipping_process,
                 shipping_address, billing_address, args.items, doc_ok)

\* the requests of the model ("" / <<>> / 0: the argument is not given)
ShopHeaders == {SignedToken(Ann, "", FarFuture), NoToken}
AddressNames == {"ADDR-1", "ADDR-2", "ADDR-3", "ADDR-4"}
CartCustomers == ShopCustomers \cup {"CUST-X"}
CartRequest(items, shipping_process, shipping_address, billing_address) ==
    [items |-> items, shipping_process |-> shipping_process,
     shipping_address |-> shipping_address, billing_address |-> billing_address]
CartRequests ==
    {CartRequest(items, "", "", "") :
        items \in {<<CartRow("ITEM-A", 0)>>, <<CartRow("ITEM-A", 1)>>,
                   <<CartRow("ITEM-A", 2)>>, <<CartRow("ITEM-B", 0)>>,
                   <<CartRow("ITEM-B", 1)>>, <<CartRow("ITEM-U", 1)>>,
                   <<CartRow("ITEM-Z", 1)>>, <<CartRow("ITEM-A", 0 - 1)>>,
                   <<CartRow("ITEM-A", 1), CartRow("ITEM-A", 2)>>,
                   <<CartRow("ITEM-A", 0), CartRow("ITEM-B", 1)>>,
                   <<CartRow("ITEM-A", 0), CartRow("ITEM-A", 2)>>}}
        \cup {CartRequest(<<>>, "", "", ""), CartRequest(<<>>, "SP-1", "", ""),
              CartRequest(<<>>, "SP-X", "", ""), CartRequest(<<>>, "", "ADDR-1", ""),
              CartRequest(<<>>, "", "", "ADDR-2")}

\* what the caller of a shop handler got, and the request it was
ShopCall(handler, header, auth, o, request) ==
    request @@ [Call(handler, "", o) EXCEPT
                   !.header = header, !.body_ran = auth.run,
                   !.body_user = auth.user]

update_cart ==
    \E header \in ShopHeaders, customer \in {ShopAnn, "CUST-X"},
       r \in CartRequests, doc_ok \in BOOLEAN :
        LET auth == require_jwt_auth(header, "Guest")
            o == IF auth.run
                 THEN update_cart_body(quick_orders, customer, r.items,
                          r.shipping_process, r.shipping_address,
                          r.billing_address, doc_ok)
                 ELSE WithOrders(auth.out, quick_orders, 0)
        IN
        /\ Len(o.quick_orders) <= MaxQuickOrders
        /\ quick_orders' = o.quick_orders
        /\ sessionUser' = auth.user
        /\ lastCall' = ShopCall("update_cart", header, auth, o,
                           [customer |-> customer, items |-> r.items,
                            cart_id |-> o.cart_id])
        /\ UNCHANGED <<clock, cache, users, customers, otpLog, addresses,
                       contacts, quotations, notifications, workers>>

clear_cart_body(qo, customer, save_ok) ==
    LET cart == _get_existing_cart(qo, customer) IN
    IF customer = ""
    THEN WithOrders(Throw(cache, "ValidationError", "customer is required"), qo, 0)
    ELSE IF ~CustomerExists(customer)
    THEN WithOrders(Throw(cache, "ValidationError", "Customer not found"), qo, 0)
    ELSE IF cart = None
    THEN WithOrders(Throw(cache, "ValidationError", "Cart not found"), qo, 0)
    ELSE IF ~save_ok
    THEN WithOrders(Throw(cache, "ValidationError", "Quick Order not valid"), qo, 0)
    ELSE WithOrders(Return(cache, "success", "Cart cleared"),
                    SaveDoc(qo, [cart EXCEPT !.table_effn = <<>>]), cart.name)

clear_cart ==
    \E header \in ShopHeaders, customer \in {ShopAnn, "CUST-X"},
       save_ok \in BOOLEAN :
        LET auth == require_jwt_auth(header, "Guest")
            o == IF auth.run THEN clear_cart_body(quick_orders, customer, save_ok)
                 ELSE WithOrders(auth.out, quick_orders, 0)
        IN
        /\ quick_orders' = o.quick_orders
        /\ sessionUser' = auth.user
        /\ lastCall' = ShopCall("clear_cart", header, auth, o,
                           [customer |-> customer, cart_id |-> o.cart_id])
        /\ UNCHANGED <<clock, cache, users, customers, otpLog, addresses,
                       contacts, quotations, notifications, workers>>

\* submit_cart without the check "Cannot submit an empty cart"
submit_cart_body_allows_empty(qo, customer, cart_id, submit_ok) ==
    LET by_id == QuickOrderByName(qo, cart_id)
        cart == IF cart_id # 0 THEN by_id ELSE _get_existing_cart(qo, customer)
    IN  IF customer = ""
        THEN WithOrders(Throw(cache, "ValidationError", "customer is required"), qo, 0)
        ELSE IF ~CustomerExists(customer)
        THEN WithOrders(Throw(cache, "ValidationError", "Customer not found"), qo, 0)
        ELSE IF cart_id # 0 /\ by_id = None
        THEN WithOrders(Throw(cache, "ValidationError", "Cart not found"), qo, 0)
        ELSE IF cart_id # 0 /\ by_id.customer # customer
        THEN WithOrders(Throw(cache, "PermissionError", "Unauthorized access to cart"), qo, 0)
        ELSE IF cart = None
        THEN WithOrders(Throw(cache, "ValidationError",
                 "Cart not found for this customer"), qo, 0)
        ELSE IF cart.docstatus # 0
        THEN WithOrders(Throw(cache, "ValidationError",
                 "Cart is already submitted or cancelled"), qo, 0)
        ELSE IF cart.shipping_process = ""
        THEN WithOrders(Throw(cache, "ValidationError",
                 "Shipping Process is required to submit cart"), qo, 0)
        ELSE IF ~submit_ok
        THEN WithOrders(Throw(cache, "ValidationError", "Quick Order not valid"), qo, 0)
        ELSE WithOrders(Return(cache, "success", "Cart submitted successfully"),
                        SaveDoc(qo, [cart EXCEPT !.docstatus = 1]), cart.name)

\* cart_id = 0: not given.  submit_ok: whether the doctype lets it be submitted.
submit_cart_body(qo, customer, cart_id, submit_ok) ==
    LET by_id == QuickOrderByName(qo, cart_id)
        cart == IF cart_id # 0 THEN by_id ELSE _get_existing_cart(qo, customer)
    IN  IF customer = ""
        THEN WithOrders(Throw(cache, "ValidationError", "customer is required"), qo, 0)
        ELSE IF ~CustomerExists(customer)
        THEN WithOrders(Throw(cache, "ValidationError", "Customer not found"), qo, 0)
        ELSE IF cart_id # 0 /\ by_id = None
        THEN WithOrders(Throw(cache, "ValidationError", "Cart not found"), qo, 0)
        ELSE IF cart_id # 0 /\ by_id.customer # customer
        THEN WithOrders(Throw(cache, "PermissionError", "Unauthorized access to cart"), qo, 0)
        ELSE IF cart = None
        THEN WithOrders(Throw(cache, "ValidationError",
                 "Cart not found for this customer"), qo, 0)
        ELSE IF cart.docstatus # 0
        THEN WithOrders(Throw(cache, "ValidationError",
                 "Cart is already submitted or cancelled"), qo, 0)
        ELSE IF cart.table_effn = <<>>
        THEN WithOrders(Throw(cache, "ValidationError", "Cannot submit an empty cart"), qo, 0)
        ELSE IF cart.shipping_process = ""
        THEN WithOrders(Throw(cache, "ValidationError",
                 "Shipping Process is required to submit cart"), qo, 0)
        ELSE IF ~submit_ok
        THEN WithOrders(Throw(cache, "ValidationError", "Quick Order not valid"), qo, 0)
        ELSE WithOrders(Return(cache, "success", "Cart submitted successfully"),
                        SaveDoc(qo, [cart EXCEPT !.docstatus = 1]), cart.name)

submit_cart ==
    \E header \in ShopHeaders, customer \in CartCustomers,
       cart_id \in 0..MaxQuickOrders, submit_ok \in BOOLEAN :
        LET auth == require_jwt_auth(header, "Guest")
            o == IF auth.run
                 THEN submit_cart_body(quick_orders, customer, cart_id, submit_ok)
                 ELSE WithOrders(auth.out, quick_orders, 0)
        IN
        /\ quick_orders' = o.quick_orders
        /\ sessionUser' = auth.user
        /\ lastCall' = ShopCall("submit_cart", header, auth, o,
                           [customer |-> customer, asked |-> cart_id,
                            cart_id |-> o.cart_id])
        /\ UNCHANGED <<clock, cache, users, customers, otpLog, addresses,
                       contacts, quotations, notifications, workers>>

----------------------------------------------------------------------------
(* address.py *)

CustomerLink(customer) == [link_doctype |-> "Customer", link_name |-> customer]

\* get_value("Contact", {"email_id": email}) takes the contact modified
\* last; get_value("Dynamic Link", ...) the Customer link of that contact
_get_customer_from_email(ct, email) ==
    LET found == {i \in 1..Len(ct) : ct[i].email_id = email}
        contact == ct[CHOOSE i \in found : \A j \in found : j <= i]
        customer_links == {l \in contact.links : l.link_doctype = "Customer"}
    IN  IF found = {} \/ customer_links = {} THEN ""
        ELSE (CHOOSE l \in customer_links : TRUE).link_name

\* email.split("@")[0].replace(".", " ").title() for the users of the model
CustomerNameOf(email) == IF email = Ann THEN "Ann" ELSE "Bob"

\* [customer, customers, contacts] after _get_or_create_customer(email)
_get_or_create_customer(ct, cu, email) ==
    LET customer == _get_customer_from_email(ct, email)
        customer_name == CustomerNameOf(email)
    IN  IF customer # ""
        THEN [customer |-> customer, customers |-> cu, contacts |-> ct]
        ELSE [customer |-> customer_name,
              customers |-> cu \cup {[name |-> customer_name]},
              contacts |-> Append(ct, [name |-> customer_name, email_id |-> email,
                                       links |-> {CustomerLink(customer_name)}])]

\* the names list_addresses returns
list_addresses_body(user_email) ==
    LET customer == _get_customer_from_email(contacts, user_email) IN
    IF customer = "" THEN {}
    ELSE {n \in AddressNames : /\ addresses[n] # None
                               /\ CustomerLink(customer) \in addresses[n].links
                               /\ addresses[n].disabled = 0}

list_addresses ==
    \E header \in ShopHeaders \cup {SignedToken(Bob, "", FarFuture)} :
        LET auth == require_jwt_auth(header, "Guest")
            o == IF auth.run THEN Return(cache, "success", "") ELSE auth.out
        IN
        /\ sessionUser' = auth.user
        /\ lastCall' = ShopCall("list_addresses", header, auth, o,
                           [names |-> IF auth.run THEN list_addresses_body(auth.user)
                                      ELSE {}])
        /\ UNCHANGED <<clock, cache, users, customers, otpLog, shopVars>>

\* frappe.local.form_dict.data of a create_address request.  None: no data.
CreateData ==
    {None,
     [address_title |-> "Home", city |-> "Pune"],
     [address_title |-> "Home", city |-> "Pune", disabled |-> 1],
     [doctype |-> "Contact", first_name |-> "Desk"]}

\* frappe.get_doc({"doctype": "Address", **address_data}) with the link of
\* the customer appended, inserted: a key doctype of the data replaces
\* "Address", and the document is then one of that doctype.
\* insert_ok: whether the framework's validation lets it be inserted.
create_address_body(user_email, address_data, insert_ok) ==
    LET c == _get_or_create_customer(contacts, customers, user_email)
        doctype == IF "doctype" \in DOMAIN address_data THEN address_data.doctype
                   ELSE "Address"
        name == CHOOSE n \in AddressNames : addresses[n] = None
        address == [address_title |-> address_data.address_title,
                    city |-> address_data.city,
                    disabled |-> IF "disabled" \in DOMAIN address_data
                                 THEN address_data.disabled ELSE 0,
                    links |-> {CustomerLink(c.customer)}]
        contact == [name |-> address_data.first_name, email_id |-> "",
                    links |-> {CustomerLink(c.customer)}]
        db == [customers |-> customers, contacts |-> contacts,
               addresses |-> addresses, name |-> ""]
    IN  IF address_data = None
        THEN db @@ Throw(cache, "TypeError", "argument after ** must be a mapping")
        ELSE IF ~insert_ok
        THEN db @@ Throw(cache, "ValidationError", "document not valid")
        ELSE IF doctype = "Address"
        THEN [customers |-> c.customers, contacts |-> c.contacts,
              addresses |-> [addresses EXCEPT ![name] = address], name |-> name]
                 @@ Return(cache, "success", name)
        ELSE [customers |-> c.customers, contacts |-> Append(c.contacts, contact),
              addresses |-> addresses, name |-> contact.name]
                 @@ Return(cache, "success", contact.name)

create_address ==
    \E header \in ShopHeaders \cup {SignedToken(Bob, "", FarFuture)},
       address_data \in CreateData, insert_ok \in BOOLEAN :
        LET auth == require_jwt_auth(header, "Guest")
            o == IF auth.run
                 THEN create_address_body(auth.user, address_data, insert_ok)
                 ELSE [customers |-> customers, contacts |-> contacts,
                       addresses |-> addresses, name |-> ""] @@ auth.out
        IN
        /\ \E n \in AddressNames : addresses[n] = None
        /\ Len(contacts) < MaxContacts
        /\ customers' = o.customers
        /\ contacts' = o.contacts
        /\ addresses' = o.addresses
        /\ sessionUser' = auth.user
        /\ lastCall' = ShopCall("create_address", header, auth, o, [name |-> o.name])
        /\ UNCHANGED <<clock, cache, users, otpLog, quick_orders, quotations,
                       notifications, workers>>

\* name and data of an update_address request ("": not given)
UpdateData == {None, [city |-> "Goa", disabled |-> 1, links |-> {}]}

\* update_address that looks for the address but not for its Dynamic Link
update_address_body_no_link_check(user_email, address_name, address_data, save_ok) ==
    LET customer == _get_customer_from_email(contacts, user_email)
        address_link == /\ addresses[address_name] # None
                        /\ CustomerLink(customer) \in addresses[address_name].links
        address_doc == addresses[address_name]
        allowed_fields == {"address_title", "address_type", "address_line1",
                           "address_line2", "city", "state", "country", "pincode",
                           "phone", "is_primary_address", "is_shipping_address",
                           "disabled"}
        updated == [field \in DOMAIN address_doc |->
                       IF field \in allowed_fields /\ field \in DOMAIN address_data
                       THEN address_data[field] ELSE address_doc[field]]
    IN  IF customer = ""
        THEN [addresses |-> addresses] @@
                 Throw(cache, "ValidationError", "Customer not found")
        ELSE IF address_name = ""
        THEN [addresses |-> addresses] @@
                 Throw(cache, "ValidationError", "Address name is required")
        ELSE IF address_data = None
        THEN [addresses |-> addresses] @@
                 Throw(cache, "ValidationError", "Address data is required")
        ELSE IF addresses[address_name] = None
        THEN [addresses |-> addresses] @@
                 Throw(cache, "PermissionError", "Address not found or unauthorized")
        ELSE IF ~save_ok
        THEN [addresses |-> addresses] @@
                 Throw(cache, "ValidationError", "document not valid")
        ELSE [addresses |-> [addresses EXCEPT ![address_name] = updated]] @@
                 Return(cache, "success", "Address updated successfully")

update_address_body(user_email, address_name, address_data, save_ok) ==
    LET customer == _get_customer_from_email(contacts, user_email)
        address_link == /\ addresses[address_name] # None
                        /\ CustomerLink(customer) \in addresses[address_name].links
        address_doc == addresses[address_name]
        allowed_fields == {"address_title", "address_type", "address_line1",
                           "address_line2", "city", "state", "country", "pincode",
                           "phone", "is_primary_address", "is_shipping_address",
                           "disabled"}
        updated == [field \in DOMAIN address_doc |->
                       IF field \in allowed_fields /\ field \in DOMAIN address_data
                       THEN address_data[field] ELSE address_doc[field]]
    IN  IF customer = ""
        THEN [addresses |-> addresses] @@
                 Throw(cache, "ValidationError", "Customer not found")
        ELSE IF address_name = ""
        THEN [addresses |-> addresses] @@
                 Throw(cache, "ValidationError", "Address name is required")
        ELSE IF address_data = None
        THEN [addresses |-> addresses] @@
                 Throw(cache, "ValidationError", "Address data is required")
        ELSE IF ~address_link
        THEN [addresses |-> addresses] @@
                 Throw(cache, "PermissionError", "Address not found or unauthorized")
        ELSE IF ~save_ok
        THEN [addresses |-> addresses] @@
                 Throw(cache, "ValidationError", "document not valid")
        ELSE [addresses |-> [addresses EXCEPT ![address_name] = updated]] @@
                 Return(cache, "success", "Address updated successfully")

update_address ==
    \E header \in ShopHeaders \cup {SignedToken(Bob, "", FarFuture)},
       address_name \in AddressNames \cup {""}, address_data \in UpdateData,
       save_ok \in BOOLEAN :
        LET auth == require_jwt_auth(header, "Guest")
            o == IF auth.run
                 THEN update_address_body(auth.user, address_name, address_data, save_ok)
                 ELSE [addresses |-> addresses] @@ auth.out
        IN
        /\ addresses' = o.addresses
        /\ sessionUser' = auth.user
        /\ lastCall' = ShopCall("update_address", header, auth, o,
                           [name |-> address_name, data |-> address_data])
        /\ UNCHANGED <<clock, cache, users, customers, otpLog, quick_orders,
                       contacts, quotations, notifications, workers>>

----------------------------------------------------------------------------
(* doctype/quotation/__init__.py (update_quotation_status and              *)
(* get_react_status are the same, line for line, in quotation.py).  A      *)
(* quotation is [status, docstatus]; what the Quotation doctype itself     *)
(* does to status on submit, save and cancel is not code of this           *)
(* repository: the model keeps the status the handler assigned.            *)

QuotationNames == {"QTN-1", "QTN-2"}
FrontendStatuses == {"draft", "sent", "approved", "rejected", "expired", "paid"}

\* status_map.get(status) of update_quotation_status, "" for None
status_map(status) ==
    IF status = "draft" THEN "Draft"
    ELSE IF status = "sent" THEN "Submitted"
    ELSE IF status = "approved" THEN "Ordered"
    ELSE IF status = "rejected" THEN "Lost"
    ELSE IF status = "expired" THEN "Expired"
    ELSE IF status = "paid" THEN "Ordered"
    ELSE ""

get_react_status(erp_status) ==
    IF erp_status = "Draft" THEN "draft"
    ELSE IF erp_status \in {"Submitted", "Open", "Replied"} THEN "sent"
    ELSE IF erp_status \in {"Partially Ordered", "Ordered"} THEN "approved"
    ELSE IF erp_status \in {"Lost", "Cancelled"} THEN "rejected"
    ELSE IF erp_status = "Expired" THEN "expired"
    ELSE "draft"

WithQuotations(o, q, quotation_status) ==
    [quotations |-> q, quotation_status |-> quotation_status] @@ o

\* submit_ok, save_ok, order_ok: whether quotation.submit(), quotation.save()
\* and convert_to_order() go through.  What was written before an exception
\* stays written: the handler catches it and returns.
update_quotation_status_body(q, quotation_id, status, submit_ok, save_ok, order_ok) ==
    LET quotation == q[quotation_id]
        erp_status == status_map(status)
        submits == status \in {"sent", "approved", "paid"} /\ quotation.docstatus = 0
        submitted == [q EXCEPT ![quotation_id].docstatus = 1]
        saved == [(IF submits THEN submitted ELSE q) EXCEPT
                     ![quotation_id].status = erp_status]
    IN  IF quotation = None
        THEN WithQuotations(Return(cache, "error", "Quotation not found"), q, "")
        ELSE IF erp_status = ""
        THEN WithQuotations(Return(cache, "error", "Invalid status"), q, "")
        ELSE IF submits /\ ~submit_ok
        THEN WithQuotations(Return(cache, "error", "submit failed"), q, "")
        ELSE IF ~save_ok
        THEN WithQuotations(Return(cache, "error", "save failed"),
                            IF submits THEN submitted ELSE q, "")
        ELSE IF status = "approved" /\ ~order_ok
        THEN WithQuotations(Return(cache, "error", "order failed"), saved, "")
        ELSE WithQuotations(Return(cache, "success", "Quotation status updated"),
                            saved, get_react_status(saved[quotation_id].status))

update_quotation_status ==
    \E quotation_id \in QuotationNames, status \in FrontendStatuses \cup {"archived"},
       submit_ok \in BOOLEAN, save_ok \in BOOLEAN, order_ok \in BOOLEAN :
        LET o == update_quotation_status_body(quotations, quotation_id, status,
                     submit_ok, save_ok, order_ok)
        IN
        /\ quotations' = o.quotations
        /\ lastCall' = [quotation_id |-> quotation_id, status |-> status,
                        quotation_status |-> o.quotation_status]
                           @@ Call("update_quotation_status", "", o)
        /\ UNCHANGED <<clock, cache, users, customers, sessionUser, otpLog,
                       quick_orders, addresses, contacts, notifications, workers>>

\* cancel_ok, delete_ok: whether quotation.cancel() and frappe.delete_doc()
\* go through
delete_quotation_body(q, quotation_id, cancel_ok, delete_ok) ==
    LET quotation == q[quotation_id]
        allowed_statuses == {"Draft", "Expired", "Lost", "Cancelled"}
        cancels == quotation.docstatus = 1
        cancelled == [q EXCEPT ![quotation_id].docstatus = 2]
    IN  IF quotation = None
        THEN WithQuotations(Return(cache, "error", "Quotation not found"), q, "")
        ELSE IF quotation.status \notin allowed_statuses
        THEN WithQuotations(Return(cache, "error",
                 "Cannot delete quotation with status"), q, "")
        ELSE IF cancels /\ ~cancel_ok
        THEN WithQuotations(Return(cache, "error", "cancel failed"), q, "")
        ELSE IF ~delete_ok
        THEN WithQuotations(Return(cache, "error", "delete failed"),
                            IF cancels THEN cancelled ELSE q, "")
        ELSE WithQuotations(Return(cache, "success", "Quotation deleted successfully"),
                            [q EXCEPT ![quotation_id] = None], "")

delete_quotation ==
    \E quotation_id \in QuotationNames, cancel_ok \in BOOLEAN, delete_ok \in BOOLEAN :
        LET o == delete_quotation_body(quotations, quotation_id, cancel_ok, delete_ok)
        IN
        /\ quotations' = o.quotations
        /\ lastCall' = [quotation_id |-> quotation_id]
                           @@ Call("delete_quotation", "", o)
        /\ UNCHANGED <<clock, cache, users, customers, sessionUser, otpLog,
                       quick_orders, addresses, contacts, notifications, workers>>

----------------------------------------------------------------------------
(* cart.py: update_cart requests, past the decorator, handled by two web   *)
(* workers at once.  Each request is one database transaction of its       *)
(* worker; it reads what is committed when it reads, and its insert is     *)
(* committed with it.  Nothing in update_cart locks the customer's cart.   *)

Workers == {1, 2}
IdleWorker == [pc |-> "idle", customer |-> "", kind |-> "",
               args |-> CartRequest(<<>>, "", "", "")]

\* lines 117-201: the checks, `cart = _get_existing_cart(customer)`, and for
\* a customer without a cart the arguments of _get_or_create_cart.  A
\* request that finds a cart is finished here (lines 210-253).
update_cart_begin(w) ==
    \E customer \in {ShopAnn, "CUST-X"}, r \in CartRequests, doc_ok \in BOOLEAN :
        LET error == update_cart_checks(customer, r.items, r.shipping_process,
                         r.shipping_address, r.billing_address)
            cart == _get_existing_cart(quick_orders, customer)
            args == new_cart_args(r.items, r.shipping_process)
            creates == error = "" /\ cart = None /\ r.items # <<>> /\ args.error = ""
            o == update_cart_body(quick_orders, customer, r.items,
                     r.shipping_process, r.shipping_address, r.billing_address,
                     doc_ok)
        IN
        /\ workers[w].pc = "idle"
        /\ workers' = [workers EXCEPT ![w] =
              IF creates
              THEN [pc |-> "checked", customer |-> customer, kind |-> "",
                    args |-> CartRequest(args.items, args.shipping_process,
                                 r.shipping_address, r.billing_address)]
              ELSE [pc |-> "done", customer |-> customer, kind |-> Kind(o),
                    args |-> r]]
        /\ quick_orders' = IF creates THEN quick_orders ELSE o.quick_orders
        /\ UNCHANGED <<clock, cache, users, customers, sessionUser, lastCall,
                       otpLog, addresses, contacts, quotations, notifications>>

\* _get_or_create_cart, lines 35-43: the second look for a draft
update_cart_recheck(w) ==
    /\ workers[w].pc = "checked"
    /\ workers' = [workers EXCEPT ![w] =
          IF _get_existing_cart(quick_orders, workers[w].customer) # None
          THEN [@ EXCEPT !.pc = "done", !.kind = "success"]
          ELSE [@ EXCEPT !.pc = "creating"]]
    /\ UNCHANGED <<clock, cache, users, customers, sessionUser, lastCall,
                   otpLog, quick_orders, addresses, contacts, quotations,
                   notifications>>

\* _get_or_create_cart, lines 45-84, and the commit that ends the request
update_cart_insert(w) ==
    \E insert_ok \in BOOLEAN :
        LET a == workers[w].args
            o == _create_cart(quick_orders, workers[w].customer,
                     a.shipping_process, a.shipping_address, a.billing_address,
                     a.items, insert_ok)
        IN
        /\ workers[w].pc = "creating"
        /\ quick_orders' = o.quick_orders
        /\ workers' = [workers EXCEPT ![w] = [@ EXCEPT !.pc = "done", !.kind = Kind(o)]]
        /\ UNCHANGED <<clock, cache, users, customers, sessionUser, lastCall,
                       otpLog, addresses, contacts, quotations, notifications>>

----------------------------------------------------------------------------
(* doctype/user_notification: the notifications of a user.  A notification
   is a record of its user, is_read (0 or 1) and read_at (the clock at the
   time it was read, -1 while the column is NULL). *)

NotificationIds == {"NOTIF-1", "NOTIF-2"}

_get_current_user(user) ==
    IF user = "" \/ user = "Guest"
    THEN Throw(cache, "PermissionError", "Unauthorized")
    ELSE Return(cache, "success", "")

_get_user_notification(n, notification_id, user) ==
    IF notification_id = ""
    THEN Throw(cache, "ValidationError", "Notification ID is required")
    ELSE IF n[notification_id] = None
    THEN Throw(cache, "DoesNotExistError", "Notification not found")
    ELSE IF n[notification_id].user # user
    THEN Throw(cache, "PermissionError",
               "You are not allowed to access this notification")
    ELSE Return(cache, "success", "")

WithNotifications(o, n) == o @@ [notifications |-> n]

\* mark_as_read that stamps the notification whether it was read or not
mark_as_read_body_restamps(n, notification_id, user, now) ==
    LET u == _get_current_user(user)
        d == _get_user_notification(n, notification_id, user)
    IN
    IF u.exc # "" THEN WithNotifications(u, n)
    ELSE IF d.exc # "" THEN WithNotifications(d, n)
    ELSE WithNotifications(Return(cache, "success", ""),
             [n EXCEPT ![notification_id] =
                 [@ EXCEPT !.is_read = 1, !.read_at = now]])

mark_as_read_body(n, notification_id, user, now) ==
    LET u == _get_current_user(user)
        d == _get_user_notification(n, notification_id, user)
    IN
    IF u.exc # "" THEN WithNotifications(u, n)
    ELSE IF d.exc # "" THEN WithNotifications(d, n)
    ELSE IF n[notification_id].is_read # 0
    THEN WithNotifications(Return(cache, "already_read", ""), n)
    ELSE WithNotifications(Return(cache, "success", ""),
             [n EXCEPT ![notification_id] =
                 [@ EXCEPT !.is_read = 1, !.read_at = now]])

NotificationHeaders == ShopHeaders \cup {SignedToken(Bob, "", FarFuture)}

mark_as_read ==
    \E header \in NotificationHeaders, notification_id \in NotificationIds \cup {""} :
        LET auth == require_jwt_auth(header, "Guest")
            o == IF auth.run
                 THEN mark_as_read_body(notifications, notification_id,
                                        auth.user, clock)
                 ELSE WithNotifications(auth.out, notifications)
        IN
        /\ notifications' = o.notifications
        /\ sessionUser' = auth.user
        /\ lastCall' = ShopCall("mark_as_read", header, auth, o,
                           [notification_id |-> notification_id])
        /\ UNCHANGED <<clock, cache, users, customers, otpLog, quick_orders,
                       addresses, contacts, quotations, workers>>

mark_all_as_read_body(n, user, now) ==
    LET u == _get_current_user(user) IN
    IF u.exc # "" THEN WithNotifications(u, n)
    ELSE WithNotifications(Return(cache, "success", ""),
             [i \in DOMAIN n |->
                 IF n[i] # None /\ n[i].user = user /\ n[i].is_read = 0
                 THEN [n[i] EXCEPT !.is_read = 1, !.read_at = now]
                 ELSE n[i]])

mark_all_as_read ==
    \E header \in NotificationHeaders :
        LET auth == require_jwt_auth(header, "Guest")
            o == IF auth.run
                 THEN mark_all_as_read_body(notifications, auth.user, clock)
                 ELSE WithNotifications(auth.out, notifications)
        IN
        /\ notifications' = o.notifications
        /\ sessionUser' = auth.user
        /\ lastCall' = ShopCall("mark_all_as_read", header, auth, o,
                           [notification_id |-> ""])
        /\ UNCHANGED <<clock, cache, users, customers, otpLog, quick_orders,
                       addresses, contacts, quotations, workers>>

get_unread_count_body(n, user) ==
    Cardinality({i \in DOMAIN n :
                    n[i] # None /\ n[i].user = user /\ n[i].is_read = 0})

get_unread_count ==
    \E header \in NotificationHeaders :
        LET auth == require_jwt_auth(header, "Guest")
            u == _get_current_user(auth.user)
            o == IF auth.run THEN u ELSE auth.out
        IN
        /\ sessionUser' = auth.user
        /\ lastCall' = ShopCall("get_unread_count", header, auth, o,
                           [notification_id |-> "",
                            count |-> IF auth.run /\ u.exc = ""
                                      THEN get_unread_count_body(notifications,
                                                                 auth.user)
                                      ELSE 0])
        /\ UNCHANGED <<clock, cache, users, customers, otpLog, shopVars>>

----------------------------------------------------------------------------
(* Time: the cache drops a key once its TTL has run out *)

Tick ==
    /\ clock < MaxTicks * TickSec
    /\ clock' = clock + TickSec
    /\ cache' = [k \in DOMAIN cache |->
                    IF cache[k] # Absent /\ cache[k].expires_at <= clock'
                    THEN Absent ELSE cache[k]]
    /\ otpLog' = Forget(otpLog, cache')
    /\ lastCall' = NoCall
    /\ UNCHANGED <<shopVars, users, customers, sessionUser>>

----------------------------------------------------------------------------

CacheKeys ==
    UNION {{OtpKey(p, i) : i \in Ids(p)} : p \in Purposes}
        \cup {ResetKey(e) : e \in Emails}

\* the User table before the first request: Ann is enabled, Bob is not
UserRow(mobile_no, enabled) ==
    [mobile_no |-> mobile_no, enabled |-> enabled, password |-> "Passw0rd!"]

StockUsers ==
    [e \in Emails |->
        IF e = Ann THEN UserRow("9000000001", 1)
        ELSE IF e = Bob THEN UserRow("9000000003", 0)
        ELSE None]

\* the same table on a site that added the column disabled to User
CustomUsers(ann_disabled, bob_disabled) ==
    [e \in Emails |->
        IF e = Ann THEN [disabled |-> ann_disabled] @@ StockUsers[e]
        ELSE IF e = Bob THEN [disabled |-> bob_disabled] @@ StockUsers[e]
        ELSE None]

InitSite ==
    /\ clock = 0
    /\ cache = [k \in CacheKeys |-> Absent]
    /\ sessionUser = "Guest"
    /\ lastCall = NoCall
    /\ otpLog = [k \in UNION {{<<p, i>> : i \in Ids(p)} : p \in Purposes} |->
                    [gens |-> 0, oks |-> 0, wrongs |-> 0]]

\* no shop document yet
NoShopData ==
    /\ quick_orders = <<>>
    /\ addresses = [n \in AddressNames |-> None]
    /\ contacts = <<>>
    /\ quotations = [n \in QuotationNames |-> None]
    /\ notifications = [n \in NotificationIds |-> None]
    /\ workers = <<>>

InitRest ==
    /\ InitSite
    /\ customers = {}
    /\ NoShopData

\* a shop with two customers and an address of each
ShopAddress(customer) ==
    [address_title |-> "Home", city |-> "Pune", disabled |-> 0,
     links |-> {[link_doctype |-> "Customer", link_name |-> customer]}]

InitCart ==
    /\ users = StockUsers
    /\ InitSite
    /\ customers = {[name |-> c] : c \in ShopCustomers}
    /\ quick_orders = <<>>
    /\ addresses = [n \in AddressNames |->
                       IF n = "ADDR-1" THEN ShopAddress(ShopAnn)
                       ELSE IF n = "ADDR-2" THEN ShopAddress(ShopBob)
                       ELSE None]
    /\ contacts = <<>>
    /\ quotations = <<>>
    /\ notifications = <<>>
    /\ workers = <<>>

\* a site whose User doctype is the framework's
InitStock ==
    /\ users = StockUsers
    /\ InitRest

\* any site: the column disabled may have been added, with any values
Init ==
    /\ \/ users = StockUsers
       \/ \E a \in {0, 1}, b \in {0, 1} : users = CustomUsers(a, b)
    /\ InitRest

InitCartRace ==
    /\ users = StockUsers
    /\ InitSite
    /\ customers = {[name |-> c] : c \in ShopCustomers}
    /\ quick_orders = <<>>
    /\ addresses = [n \in AddressNames |-> None]
    /\ contacts = <<>>
    /\ quotations = <<>>
    /\ notifications = <<>>
    /\ workers = [w \in Workers |-> IdleWorker]

\* Ann has a contact and a customer, Bob has neither yet; ADDR-2 is the
\* address of a customer that is nobody's here
InitAddress ==
    /\ users = StockUsers
    /\ InitSite
    /\ customers = {[name |-> c] : c \in ShopCustomers}
    /\ quick_orders = <<>>
    /\ addresses = [n \in AddressNames |->
                       IF n = "ADDR-1" THEN ShopAddress(ShopAnn)
                       ELSE IF n = "ADDR-2" THEN ShopAddress(ShopBob)
                       ELSE None]
    /\ contacts = <<[name |-> "Ann Lee", email_id |-> Ann,
                     links |-> {CustomerLink(ShopAnn)}]>>
    /\ quotations = <<>>
    /\ notifications = <<>>
    /\ workers = <<>>

\* the quotations there are before the first request, in the states the
\* Quotation doctype gives them
InitQuotation ==
    /\ users = StockUsers
    /\ InitSite
    /\ customers = {}
    /\ quick_orders = <<>>
    /\ addresses = [n \in AddressNames |-> None]
    /\ contacts = <<>>
    /\ quotations \in [QuotationNames ->
           {None, [status |-> "Draft", docstatus |-> 0],
            [status |-> "Open", docstatus |-> 1],
            [status |-> "Ordered", docstatus |-> 1],
            [status |-> "Lost", docstatus |-> 1],
            [status |-> "Expired", docstatus |-> 1],
            [status |-> "Cancelled", docstatus |-> 2]}]
    /\ notifications = <<>>
    /\ workers = <<>>

NextOtp ==
    \/ send_signup_otp
    \/ resend_signup_otp
    \/ verify_signup_otp
    \/ complete_signup
    \/ send_login_otp
    \/ verify_login_otp
    \/ forgot_password_request
    \/ verify_reset_otp
    \/ reset_password
    \/ resend_reset_otp
    \/ Tick

NextAuth ==
    \/ login
    \/ refresh_token
    \/ get_current_user
    \/ logout
    \/ Tick

NextCart ==
    \/ update_cart
    \/ clear_cart
    \/ submit_cart

NextCartRace ==
    \/ \E w \in Workers : update_cart_begin(w)
    \/ \E w \in Workers : update_cart_recheck(w)
    \/ \E w \in Workers : update_cart_insert(w)

NextAddress ==
    \/ list_addresses
    \/ create_address
    \/ update_address

\* a site whose two notification names are free, or hold an unread or a
\* read notification of Ann or of Bob
InitNotification ==
    /\ users = StockUsers
    /\ InitSite
    /\ customers = {}
    /\ quick_orders = <<>>
    /\ addresses = [n \in AddressNames |-> None]
    /\ contacts = <<>>
    /\ quotations = <<>>
    /\ notifications \in [NotificationIds ->
           {None,
            [user |-> Ann, is_read |-> 0, read_at |-> -1],
            [user |-> Ann, is_read |-> 1, read_at |-> 0],
            [user |-> Bob, is_read |-> 0, read_at |-> -1]}]
    /\ workers = <<>>

NextQuotation ==
    \/ update_quotation_status
    \/ delete_quotation

NextNotification ==
    \/ mark_as_read
    \/ mark_all_as_read
    \/ get_unread_count
    \/ Tick

Next ==
    \/ NextOtp \/ NextAuth \/ NextCart \/ NextCartRace \/ NextAddress
    \/ NextQuotation \/ NextNotification

\* the OTP flows (signup, login by OTP, password reset) on a stock site
SpecOtp == InitStock /\ [][NextOtp]_vars

\* password login and the JWT session handlers on any site
SpecAuth == Init /\ [][NextAuth]_vars

\* the cart handlers, one request at a time
SpecCart == InitCart /\ [][NextCart]_vars

\* two update_cart requests in two workers
SpecCartRace == InitCartRace /\ [][NextCartRace]_vars

\* the address handlers
SpecAddress == InitAddress /\ [][NextAddress]_vars

\* the quotation handlers
SpecQuotation == InitQuotation /\ [][NextQuotation]_vars

\* the notification handlers
SpecNotification == InitNotification /\ [][NextNotification]_vars

Spec == Init /\ [][Next]_vars

----------------------------------------------------------------------------
(* Properties *)

VerifyHandler(purpose) ==
    IF purpose = "signup" THEN "verify_signup_otp"
    ELSE IF purpose = "login" THEN "verify_login_otp"
    ELSE "verify_reset_otp"

\* the (purpose, identifier) pairs a verification response is about
VerifyTargets(call) ==
    {k \in DOMAIN otpLog :
        /\ call.handler = VerifyHandler(k[1])
        /\ IF k[1] = "reset" THEN k[2] \in ResetAccount(call.id) ELSE k[2] = call.id}

Protected == {"get_current_user", "logout"}

\* C1: every handler answers a failure inside it with an error object and
\* never lets the exception leave the handler.
C1_NoExceptionLeavesHandler == lastCall.kind # "raised"

\* what "verifies" means for the Token header, said without the code: signed
\* with the configured secret, by the configured algorithm, not yet expired
SignedUnexpired(token) ==
    /\ token # NoToken
    /\ token.key = "your-secret-key-change-in-production"
    /\ token.alg = "HS256"
    /\ token.exp > clock

C3_PhoneVerified(phone) ==
    /\ get_value(cache, OtpKey("signup", phone)) # None
    /\ get_value(cache, OtpKey("signup", phone)).verified
    /\ otpLog[<<"signup", phone>>].oks >= 1

C3_Step ==
    /\ (\E e \in Emails : users[e] = None /\ users'[e] # None) \/ customers' # customers
          => /\ lastCall'.handler = "complete_signup"
             /\ lastCall'.id \in Phones
             /\ C3_PhoneVerified(lastCall'.id)
    /\ \A phone \in Phones :
          /\ lastCall'.handler = "complete_signup"
          /\ lastCall'.id = phone
          /\ ~C3_PhoneVerified(phone)
          => /\ lastCall'.msg = "Phone verification required"
             /\ lastCall'.kind = "error"
             /\ users' = users
             /\ customers' = customers

C3_SignupNeedsVerifiedPhone == [][C3_Step]_vars

C3_Witness ==
    /\ lastCall.handler = "complete_signup"
    /\ lastCall.kind = "success"
    /\ \E e \in Emails : users[e] # None /\ users[e].mobile_no = lastCall.id
    /\ \E cu \in customers : cu.mobile_no = lastCall.id

\* C4: for signup, login and reset alike, once 3 wrong OTPs were submitted
\* against the cached entry, no verification against that entry succeeds,
\* the correct OTP included, until a new OTP is generated.
C4_Step ==
    \A k \in VerifyTargets(lastCall') :
        otpLog[k].wrongs >= 3 => lastCall'.kind # "success"

C4_AttemptLimit == [][C4_Step]_vars

C4_Witness ==
    /\ lastCall.handler = "verify_login_otp"
    /\ lastCall.msg = "Too many attempts. Request a new OTP"
    /\ otpLog[<<"login", lastCall.id>>].wrongs = 3

\* C5: the three-step password reset can complete; its first step,
\* forgot_password_request for an existing enabled user, returns success and
\* stores the reset entry that verify_reset_otp reads.
C5_ResetFirstStep ==
    \A e \in Emails :
        /\ lastCall.handler = "forgot_password_request"
        /\ e \in ResetAccount(lastCall.id)
        => /\ lastCall.kind = "success"
           /\ get_value(cache, ResetKey(e)) # None

\* C6: after logout succeeded with refresh token R, no refresh_token call
\* made with R while the blacklist entry lives gets a new access token.
C6_LoggedOutTokenRejected ==
    /\ lastCall.handler = "refresh_token"
    /\ is_refresh_token_blacklisted(cache, lastCall.arg)
    => /\ lastCall.kind # "success"
       /\ lastCall.access_token = NoToken

\* C7: no verification succeeds later than expires_in seconds after send_otp
\* generated the OTP, whatever verifications were made in between.
C7_Step ==
    \A k \in VerifyTargets(lastCall') :
        lastCall'.kind = "success" =>
            LET entry == get_value(cache, VerifyKey(k[1], k[2])) IN
            /\ entry # None
            /\ clock < entry.created_at + get_otp_expiry_minutes * 60

C7_OtpExpires == [][C7_Step]_vars

\* C8: for one purpose and identifier at most 1 + resend limit OTPs are
\* generated within any one hour (a behaviour of the model is shorter than an
\* hour, so gens counts the OTPs of one hour).
C8_GenerationLimit ==
    MaxTicks * TickSec < 3600 =>
        \A k \in DOMAIN otpLog : otpLog[k].gens <= 1 + get_otp_resend_limit_per_hour

\* C9: an OTP is one-time: an entry is verified successfully at most once
\* unless a new OTP is generated in between.
C9_OneTime == \A k \in DOMAIN otpLog : otpLog[k].oks <= 1

\* C10: refresh_token issues an access token only for a token that verifies,
\* has type refresh, and whose user exists and is enabled.
C10_RefreshOnlyForEnabledUser ==
    /\ lastCall.handler = "refresh_token"
    /\ (lastCall.kind = "success" \/ lastCall.access_token # NoToken)
    => /\ SignedUnexpired(lastCall.arg)
       /\ lastCall.arg.type = "refresh"
       /\ users[lastCall.arg.email] # None
       /\ users[lastCall.arg.email].enabled = 1

----------------------------------------------------------------------------
(* Properties of the cart *)

RowsOf(doc, item_code) ==
    {i \in 1..Len(doc.table_effn) : doc.table_effn[i].item_code = item_code}

\* the rows of the item codes that no entry of items names, in their order
RowsNotNamed(doc, items) ==
    SelectSeq(doc.table_effn,
              LAMBDA row : \A k \in 1..Len(items) : items[k].item_code # row.item_code)

\* the entries of items about item_code
EntriesOf(items, item_code) ==
    {k \in 1..Len(items) : items[k].item_code = item_code}

\* this step is an update_cart that succeeded on the draft cart the
\* customer had already
UpdatedExistingCart ==
    /\ lastCall'.handler = "update_cart"
    /\ lastCall'.kind = "success"
    /\ _get_existing_cart(quick_orders, lastCall'.customer) # None

C11_StepFor(X) ==
    LET items == lastCall'.items
        before == _get_existing_cart(quick_orders, lastCall'.customer)
        after == QuickOrderByName(quick_orders', lastCall'.cart_id)
    IN  /\ UpdatedExistingCart
        /\ EntriesOf(items, X) # {}
        /\ \A k \in EntriesOf(items, X) : items[k].qty = 0
        => /\ RowsOf(after, X) = {}
           /\ (RowsOf(before, X) = {} /\ Len(items) = 1
                  => after.table_effn = before.table_effn)

\* C11: after a successful update_cart on the customer's existing draft cart
\* whose items name X with qty 0 (and with no other qty), the cart has no row
\* with item_code X; when X was not in the cart and the request has no other
\* entry, the rows are as before.
C11_QtyZeroRemoves == [][\A X \in ItemCodes : C11_StepFor(X)]_vars

\* what C12 says of entry k of the request of this step
C12_Entry(k) ==
    LET items == lastCall'.items
        before == _get_existing_cart(quick_orders, lastCall'.customer)
        after == QuickOrderByName(quick_orders', lastCall'.cart_id)
    IN  /\ lastCall'.handler = "update_cart"
        /\ lastCall'.kind = "success"
        /\ items[k].qty > 0
        => /\ \E i \in RowsOf(after, items[k].item_code) :
                  after.table_effn[i].qty = items[k].qty
           /\ before # None => RowsNotNamed(after, items) = RowsNotNamed(before, items)

\* C12: after a successful update_cart whose items contain {item_code: X,
\* qty: q} with q > 0, the customer's draft cart has a row for X whose qty is
\* exactly q, and the rows of the item codes the request does not name are
\* unchanged.
C12_QtySet ==
    [][lastCall'.handler = "update_cart"
          => \A k \in 1..Len(lastCall'.items) : C12_Entry(k)]_vars

\* C12 as amended: the same for an item code X that the request names in
\* one entry only.
C12_QtySetNamedOnce ==
    [][lastCall'.handler = "update_cart"
          => \A k \in 1..Len(lastCall'.items) :
                Cardinality(EntriesOf(lastCall'.items, lastCall'.items[k].item_code)) = 1
                    => C12_Entry(k)]_vars

\* an update_cart has set the qty of ITEM-A to 2 in a cart that has a row of
\* ITEM-B, which it did not name
C12_Witness ==
    /\ lastCall.handler = "update_cart"
    /\ lastCall.kind = "success"
    /\ lastCall.items = <<CartRow("ITEM-A", 2)>>
    /\ QuickOrderByName(quick_orders, lastCall.cart_id).table_effn
           = <<CartRow("ITEM-B", 1), CartRow("ITEM-A", 2)>>

C13_Step ==
    /\ \A i \in 1..Len(quick_orders') :
          LET after == quick_orders'[i]
              before == QuickOrderByName(quick_orders, after.name)
          IN  after.docstatus = 1 /\ (before = None \/ before.docstatus # 1)
              => /\ lastCall'.handler = "submit_cart"
                 /\ lastCall'.kind = "success"
                 /\ before # None
                 /\ before.customer = lastCall'.customer
                 /\ before.docstatus = 0
                 /\ before.table_effn # <<>>
                 /\ before.shipping_process # ""
                 /\ after = [before EXCEPT !.docstatus = 1]
    /\ lastCall'.handler = "submit_cart" /\ lastCall'.kind # "success"
          => quick_orders' = quick_orders
    /\ \A i \in 1..Len(quick_orders') :
          quick_orders'[i].docstatus = 1 => quick_orders'[i].table_effn # <<>>

\* C13: a Quick Order goes from draft to submitted only by a submit_cart of
\* its own customer, when it is in draft, has an item row and a shipping
\* process; a submit_cart that fails changes no Quick Order; every submitted
\* cart has at least one item.
C13_SubmitNeedsItems == [][C13_Step]_vars

\* a submit_cart has submitted a cart
C13_Witness ==
    /\ lastCall.handler = "submit_cart"
    /\ lastCall.kind = "success"
    /\ QuickOrderByName(quick_orders, lastCall.cart_id).docstatus = 1
    /\ QuickOrderByName(quick_orders, lastCall.cart_id).table_effn # <<>>

----------------------------------------------------------------------------
(* Properties of concurrent requests *)

\* C19: two update_cart requests with items for one customer who has no
\* draft cart, handled concurrently, leave the customer with exactly one
\* draft cart.
C19_OneDraftCart ==
    \A c \in ShopCustomers :
        (\A w \in Workers : /\ workers[w].pc = "done"
                            /\ workers[w].customer = c
                            /\ workers[w].kind = "success"
                            /\ workers[w].args.items # <<>>)
            => Cardinality(Drafts(quick_orders, c)) = 1

----------------------------------------------------------------------------
(* Properties of the addresses *)

\* address n exists and a Dynamic Link row ties it to the customer of user
LinkedToCustomerOf(user_email, n) ==
    /\ n \in AddressNames
    /\ addresses[n] # None
    /\ _get_customer_from_email(contacts, user_email) # ""
    /\ CustomerLink(_get_customer_from_email(contacts, user_email))
           \in addresses[n].links

\* C14: after a create_address that succeeded for user U, the address it
\* returned is linked to U's customer and, unless it is disabled, is among
\* the addresses list_addresses gives U; list_addresses gives U only
\* addresses linked to U's customer.
C14_CreatedAddressListed ==
    /\ lastCall.handler = "create_address" /\ lastCall.kind = "success"
          => /\ LinkedToCustomerOf(lastCall.body_user, lastCall.name)
             /\ addresses[lastCall.name].disabled = 0
                   => lastCall.name \in list_addresses_body(lastCall.body_user)
    /\ lastCall.handler = "list_addresses"
          => \A n \in lastCall.names : LinkedToCustomerOf(lastCall.body_user, n)

\* what C15 says of an update_address step; message_always: whether the
\* failure is said to carry 'Address not found or unauthorized' for every
\* address named, or when the user has a customer and the request has data
C15_Step(message_always) ==
    LET user == lastCall'.body_user
        n == lastCall'.name
        complete == /\ _get_customer_from_email(contacts, user) # ""
                    /\ n # ""
                    /\ lastCall'.data # None
    IN  lastCall'.handler = "update_address" /\ lastCall'.body_ran
        => /\ \A m \in AddressNames :
                 addresses'[m] # addresses[m]
                     => m = n /\ LinkedToCustomerOf(user, n)
           /\ ~LinkedToCustomerOf(user, n)
                 => /\ lastCall'.kind = "raised"
                    /\ addresses' = addresses
                    /\ (message_always /\ n # "") \/ complete
                          => lastCall'.msg = "Address not found or unauthorized"

\* C15: update_address modifies an address only if a Dynamic Link row ties it
\* to the customer of the authenticated user; for any other address it fails
\* with 'Address not found or unauthorized' and the address is unchanged.
C15_UpdateOnlyOwnAddress == [][C15_Step(TRUE)]_vars

\* C15 as amended: the same, where the failure carries 'Address not found or
\* unauthorized' when the user has a customer and the request names an
\* address and carries data, and another message otherwise.
C15_UpdateOnlyOwnAddressAnyMessage == [][C15_Step(FALSE)]_vars

\* Ann was refused the update of an address of another customer
C15_Witness ==
    /\ lastCall.handler = "update_address"
    /\ lastCall.body_user = Ann
    /\ lastCall.kind = "raised"
    /\ lastCall.msg = "Address not found or unauthorized"
    /\ addresses[lastCall.name] # None
    /\ ~LinkedToCustomerOf(Ann, lastCall.name)

----------------------------------------------------------------------------
(* Properties of the quotations *)

\* C16: delete_quotation deletes a quotation only if its status is Draft or
\* Expired; for a quotation in another status it deletes nothing and returns
\* an error.
C16_DeleteOnlyDraftOrExpired ==
    [][lastCall'.handler = "delete_quotation"
          => LET quotation == quotations[lastCall'.quotation_id] IN
             /\ \A n \in QuotationNames :
                   quotations[n] # None /\ quotations'[n] = None
                       => quotations[n].status \in {"Draft", "Expired"}
             /\ quotation # None /\ quotation.status \notin {"Draft", "Expired"}
                   => /\ lastCall'.kind = "error"
                      /\ quotations'[lastCall'.quotation_id] # None]_vars

\* C17: for every frontend status s of the status map, get_react_status of
\* the mapped status is s, so a successful update_quotation_status(q, s)
\* reports quotation_status = s; for a status outside the map the call
\* returns 'Invalid status' and changes no quotation.
C17_StatusRoundTrip ==
    [][lastCall'.handler = "update_quotation_status"
          => /\ lastCall'.kind = "success"
                   => /\ get_react_status(status_map(lastCall'.status)) = lastCall'.status
                      /\ lastCall'.quotation_status = lastCall'.status
             /\ lastCall'.status \notin FrontendStatuses
                    /\ quotations[lastCall'.quotation_id] # None
                   => /\ lastCall'.kind = "error"
                      /\ lastCall'.msg = "Invalid status"
                      /\ quotations' = quotations]_vars

----------------------------------------------------------------------------
(* Properties of the notification handlers *)

\* the mark_as_read request of the step ran its body for a notification of
\* the caller that was already read
C18_AlreadyRead ==
    /\ lastCall'.handler = "mark_as_read"
    /\ lastCall'.body_ran
    /\ lastCall'.notification_id # ""
    /\ notifications[lastCall'.notification_id] # None
    /\ notifications[lastCall'.notification_id].user = lastCall'.body_user
    /\ notifications[lastCall'.notification_id].is_read # 0

\* C18: mark_as_read is idempotent: for a notification of the caller that is
\* already read it returns 'already_read' and changes no notification
\* (is_read and read_at keep their values), and after any mark_as_read a
\* second call by the same caller for the same notification would leave the
\* notifications as the first one left them.
C18_MarkAsReadIdempotent ==
    [][/\ C18_AlreadyRead
          => /\ lastCall'.kind = "already_read"
             /\ notifications' = notifications
       /\ lastCall'.handler = "mark_as_read" /\ lastCall'.body_ran
          => \A later \in clock' .. MaxTicks * TickSec :
                mark_as_read_body(notifications', lastCall'.notification_id,
                                  lastCall'.body_user, later).notifications
                    = notifications']_vars

\* a notification read at an earlier time has been marked as read again
C18_Witness ==
    /\ lastCall.handler = "mark_as_read"
    /\ lastCall.kind = "already_read"
    /\ notifications[lastCall.notification_id].user = lastCall.body_user
    /\ notifications[lastCall.notification_id].is_read = 1
    /\ notifications[lastCall.notification_id].read_at >= 0
    /\ notifications[lastCall.notification_id].read_at < clock

====
